---- MODULE Spec2Model ----
(***************************************************************************)
(* The user controller of rust-rocket-sqlx-sample: four Rocket handlers    *)
(* (index, add, update, delete) over a use-case layer, a repository and a  *)
(* pooled database connection.                                             *)
(*                                                                         *)
(* src/controllers/user_controller.rs holds the handlers; the use-case,    *)
(* the repository, the error type and the connection guard are other       *)
(* modules of the crate and are modelled from the specification.           *)
(***************************************************************************)
EXTENDS Integers, Sequences, FiniteSets, TLC

\* ------------------------------------------------------------------ bounds

\* Ids the database sequence may hand out before creates stop being sent.
MaxId == 2

\* In-flight request slots and pooled connections.
Requests == {"r1", "r2"}
Conns == {"c1", "c2"}

\* Path ids sent by clients: every id the sequence can assign; such an id is
\* not stored before it is assigned and after its row is deleted.
Ids == 1..MaxId

\* ------------------------------------------------------------- data shapes

None == <<>>
Some(x) == <<x>>

\* dto::user_dto::UserName
UserName(name, age) == [name |-> name, age |-> age]

\* Request bodies sent by clients: the fixture's ("fer", 31), and ages at the
\* limit, above it, and negative.
Bodies ==
    { UserName("fer", 31), UserName("fer", 32),
      UserName("x", 33), UserName("x", -1) }

\* models::user_model::User
User(id, name, age) == [id |-> id, name |-> name, age |-> age]

\* error::app_error::AppError
AppError_new(code, message) == [code |-> code, message |-> message]

\* `if age > 32`
AgeLimit == 32
BadRequest == 400
AgeMessage == "age must be less than 32"

NotFound == 404
InternalServerError == 500
Ok200 == 200

\* Errors the use-case layer may surface besides the repository's not-found:
\* the mocked (500, "error!") of tests::test_index_fail, and a not-found.
UseCaseErrors ==
    { AppError_new(InternalServerError, "error!"),
      AppError_new(NotFound, "not found") }

Faults == {None} \cup {Some(e) : e \in UseCaseErrors}

\* Result<T, AppError> of a call, with the rows and the id sequence it leaves:
\* `users` holds the users of an Ok (none for `()`).
Ok(users, st, nid) ==
    [ok |-> TRUE, err |-> None, users |-> users, store |-> st, nextId |-> nid]
Err(e, st, nid) ==
    [ok |-> FALSE, err |-> Some(e), users |-> <<>>, store |-> st, nextId |-> nid]

Range(s) == {s[i] : i \in DOMAIN s}

\* All orders in which the rows of a table may be returned.
Orders(S) ==
    {s \in [1..Cardinality(S) -> S] : Range(s) = S}

StoredIds(st) == {u.id : u \in st}

VARIABLES
    store,      \* rows of the users table: a set of User with distinct ids
    nextId,     \* next value of the id sequence
    created,    \* history: ids ever returned by a create
    deleted,    \* history: ids removed by a delete
    pool,       \* connections idle in the pool
    pc,         \* per request slot: "idle" | the route being handled
    conn,       \* per request slot: the connection its handler owns
    last        \* observation of the most recently completed request

vars == <<store, nextId, created, deleted, pool, pc, conn, last>>

Routes == {"index", "add", "update", "delete"}
NoConn == "none"

\* ------------------------------------------------------------- repository
\* repositories::user_repo::UserRepo, against the rows `st` and the id
\* sequence `nid`.  A repository failure carries a DbRepoError kind.

repo_find_all(st, nid, rows) == Ok(rows, st, nid)

repo_create(st, nid, name, age) ==
    LET u == User(nid, name, age)
    IN  Ok(<<u>>, st \cup {u}, nid + 1)

repo_update(st, nid, id, name, age) ==
    IF id \in StoredIds(st)
    THEN LET u == User(id, name, age)
         IN  Ok(<<u>>, {x \in st : x.id # id} \cup {u}, nid)
    ELSE Err("RowNotFound", st, nid)

repo_delete(st, nid, id) ==
    IF id \in StoredIds(st)
    THEN Ok(<<>>, {x \in st : x.id # id}, nid)
    ELSE Err("RowNotFound", st, nid)

\* ---------------------------------------------------------------- use case
\* use_cases::user_use_case::UserUseCase: a pass-through to the repository
\* whose failure becomes an AppError; `fault` is a failure of the call itself
\* (a database failure, a domain rule, a mock's answer), which leaves the
\* rows as they were.

from_repo(res) ==
    IF res.ok THEN res
    ELSE Err(AppError_new(NotFound, "not found"), res.store, res.nextId)

use_case(fault, st, nid, res) ==
    IF fault # None THEN Err(fault[1], st, nid) ELSE from_repo(res)

uc_find_all(fault, st, nid, rows) ==
    use_case(fault, st, nid, repo_find_all(st, nid, rows))

uc_create(fault, st, nid, name, age) ==
    use_case(fault, st, nid, repo_create(st, nid, name, age))

uc_update(fault, st, nid, id, name, age) ==
    use_case(fault, st, nid, repo_update(st, nid, id, name, age))

uc_delete(fault, st, nid, id) ==
    use_case(fault, st, nid, repo_delete(st, nid, id))

\* The call a handler makes on the use-case layer, as the layer receives it.
Call(op, id, name, age) == [op |-> op, id |-> id, name |-> name, age |-> age]

\* ---------------------------------------------------------------- responses

Body(kind, text, users) == [kind |-> kind, text |-> text, users |-> users]

\* rocket::serde::json::Json<Vec<User>>, Json<User> and `()` as a response.
Json_array(users) == Body("array", "", users)
Json_object(users) == Body("object", "", users)
Empty == Body("empty", "", <<>>)

Response(status, body) == [status |-> status, body |-> body]

\* AppError as a response: its code as the status, its message as the body.
respond_error(e) == Response(e.code, Body("text", e.message, <<>>))

\* What Rocket sends for a handler's Result<T, AppError>.
respond(res, json) ==
    IF res.ok THEN Response(Ok200, json) ELSE respond_error(res.err[1])

\* ------------------------------------------------------------------- state

\* The request a handler was given: its route, path id and body.
Request(route, id, name, age) ==
    [route |-> route, id |-> id, name |-> name, age |-> age]

\* Nothing completed yet.
NoLast ==
    [request |-> Request("none", 0, "", 0), fault |-> None, calls |-> <<>>,
     err |-> None, response |-> Response(0, Empty),
     beforeIds |-> {}, createdBefore |-> {}]

Init ==
    /\ store = {}
    /\ nextId = 1
    /\ created = {}
    /\ deleted = {}
    /\ pool = Conns
    /\ pc = [r \in Requests |-> "idle"]
    /\ conn = [r \in Requests |-> NoConn]
    /\ last = NoLast

\* Creates still in flight: each may take one id of the sequence.
PendingAdds == Cardinality({q \in Requests : pc[q] = "add"})

\* A request is routed and its ConnectionDb guard checks a connection out of
\* the pool; the handler then runs with that connection as its own `db`.
Dispatch(r) ==
    /\ pc[r] = "idle"
    /\ \E route \in Routes, c \in pool :
        /\ route = "add" => nextId + PendingAdds <= MaxId
        /\ pc' = [pc EXCEPT ![r] = route]
        /\ conn' = [conn EXCEPT ![r] = c]
        /\ pool' = pool \ {c}
    /\ UNCHANGED <<store, nextId, created, deleted, last>>

\* Mutant of Complete: the handler keeps its connection after it returned.
Complete_keeping_connection(r, request, fault, calls, ucErr, response, st, nid) ==
    /\ store' = st
    /\ nextId' = nid
    /\ created' = created \cup (StoredIds(st) \ StoredIds(store))
    /\ deleted' = deleted \cup (StoredIds(store) \ StoredIds(st))
    /\ last' = [request |-> request, fault |-> fault, calls |-> calls,
                err |-> ucErr, response |-> response,
                beforeIds |-> StoredIds(store), createdBefore |-> created]
    /\ pc' = [pc EXCEPT ![r] = "idle"]
    /\ UNCHANGED <<pool, conn>>

\* The handler of slot r returns: the database is left as the use-case left
\* it (st, nid), the response is sent and `db` goes out of scope, which hands
\* the connection back to the pool.
Complete(r, request, fault, calls, ucErr, response, st, nid) ==
    /\ store' = st
    /\ nextId' = nid
    /\ created' = created \cup (StoredIds(st) \ StoredIds(store))
    /\ deleted' = deleted \cup (StoredIds(store) \ StoredIds(st))
    /\ last' = [request |-> request, fault |-> fault, calls |-> calls,
                err |-> ucErr, response |-> response,
                beforeIds |-> StoredIds(store), createdBefore |-> created]
    /\ pc' = [pc EXCEPT ![r] = "idle"]
    /\ pool' = pool \cup {conn[r]}
    /\ conn' = [conn EXCEPT ![r] = NoConn]

\* ---------------------------------------------------------------- handlers
\* Each handler is one step: it reads its inputs, makes its use-case call
\* (one database statement) and returns.  `fault` is what the environment
\* makes of that call: None, or the error the use-case layer answers with.

\* Mutant of index: only the first row is returned.
index_truncated(r) ==
    /\ pc[r] = "index"
    /\ \E fault \in Faults, rows \in Orders(store) :
        LET users == uc_find_all(fault, store, nextId, rows)
        IN  Complete(r, Request("index", 0, "", 0), fault,
                     <<Call("find_all", 0, "", 0)>>, users.err,
                     respond(users, Json_array(
                         IF users.users = <<>> THEN <<>>
                         ELSE <<Head(users.users)>>)),
                     users.store, users.nextId)

\* Mutant of index: every error of find_all is answered 500.
index_always_500(r) ==
    /\ pc[r] = "index"
    /\ \E fault \in Faults, rows \in Orders(store) :
        LET users == uc_find_all(fault, store, nextId, rows)
        IN  Complete(r, Request("index", 0, "", 0), fault,
                     <<Call("find_all", 0, "", 0)>>, users.err,
                     IF users.ok
                     THEN respond(users, Json_array(users.users))
                     ELSE respond_error(AppError_new(InternalServerError,
                                                     users.err[1].message)),
                     users.store, users.nextId)

\* #[get("/")]
index(r) ==
    /\ pc[r] = "index"
    /\ \E fault \in Faults, rows \in Orders(store) :
        LET users == uc_find_all(fault, store, nextId, rows)
        IN  Complete(r, Request("index", 0, "", 0), fault,
                     <<Call("find_all", 0, "", 0)>>, users.err,
                     respond(users, Json_array(users.users)),
                     users.store, users.nextId)

\* Mutant of age_rejected: the limit is off by one.
age_rejected_above_33(age) == age > AgeLimit + 1

\* `if age > 32`
age_rejected(age) == age > AgeLimit

\* Mutant of add_inner: the age of the body is lost.
add_inner_drops_age(user_json) == [name |-> user_json.name, age |-> 0]

\* `let name = inner.name; let age = inner.age;` of add
add_inner(user_json) == [name |-> user_json.name, age |-> user_json.age]

\* Mutant of add: an error of create is replaced by a generic 500.
add_masking_error(r) ==
    /\ pc[r] = "add"
    /\ \E user_json \in Bodies :
        LET inner == add_inner(user_json)
            request == Request("add", 0, user_json.name, user_json.age)
        IN  IF age_rejected(inner.age)
            THEN Complete(r, request, None, <<>>, None,
                          respond_error(AppError_new(BadRequest, AgeMessage)),
                          store, nextId)
            ELSE \E fault \in Faults :
                    LET user == uc_create(fault, store, nextId,
                                          inner.name, inner.age)
                    IN  Complete(r, request, fault,
                                 <<Call("create", 0, inner.name, inner.age)>>,
                                 user.err,
                                 IF user.ok
                                 THEN respond(user, Json_object(user.users))
                                 ELSE respond_error(AppError_new(
                                          InternalServerError,
                                          "internal error")),
                                 user.store, user.nextId)

\* Mutant of add: the user is created before the age is checked.
add_create_before_check(r) ==
    /\ pc[r] = "add"
    /\ \E user_json \in Bodies, fault \in Faults :
        LET inner == add_inner(user_json)
            request == Request("add", 0, user_json.name, user_json.age)
            user == uc_create(fault, store, nextId, inner.name, inner.age)
            calls == <<Call("create", 0, inner.name, inner.age)>>
        IN  IF user.ok /\ age_rejected(inner.age)
            THEN Complete(r, request, fault, calls, user.err,
                          respond_error(AppError_new(BadRequest, AgeMessage)),
                          user.store, user.nextId)
            ELSE Complete(r, request, fault, calls, user.err,
                          respond(user, Json_object(user.users)),
                          user.store, user.nextId)

\* #[post("/add", data = "<user_json>")]
add(r) ==
    /\ pc[r] = "add"
    /\ \E user_json \in Bodies :
        LET inner == add_inner(user_json)
            request == Request("add", 0, user_json.name, user_json.age)
        IN  IF age_rejected(inner.age)
            THEN Complete(r, request, None, <<>>, None,
                          respond_error(AppError_new(BadRequest, AgeMessage)),
                          store, nextId)
            ELSE \E fault \in Faults :
                    LET user == uc_create(fault, store, nextId,
                                          inner.name, inner.age)
                    IN  Complete(r, request, fault,
                                 <<Call("create", 0, inner.name, inner.age)>>,
                                 user.err,
                                 respond(user, Json_object(user.users)),
                                 user.store, user.nextId)

\* Mutant of update_inner: the age of the body is lost.
update_inner_drops_age(user_json) == [name |-> user_json.name, age |-> 0]

\* `let name = inner.name; let age = inner.age;` of update
update_inner(user_json) == [name |-> user_json.name, age |-> user_json.age]

\* Mutant of update: the age check of add is applied to update as well.
update_validated(r) ==
    /\ pc[r] = "update"
    /\ \E id \in Ids, user_json \in Bodies, fault \in Faults :
        LET inner == update_inner(user_json)
            request == Request("update", id, user_json.name, user_json.age)
            user == uc_update(fault, store, nextId, id, inner.name, inner.age)
        IN  IF age_rejected(inner.age)
            THEN Complete(r, request, None, <<>>, None,
                          respond_error(AppError_new(BadRequest, AgeMessage)),
                          store, nextId)
            ELSE Complete(r, request, fault,
                          <<Call("update", id, inner.name, inner.age)>>,
                          user.err,
                          respond(user, Json_object(user.users)),
                          user.store, user.nextId)

\* #[put("/<id>", data = "<user_json>")]
update(r) ==
    /\ pc[r] = "update"
    /\ \E id \in Ids, user_json \in Bodies, fault \in Faults :
        LET inner == update_inner(user_json)
            user == uc_update(fault, store, nextId, id, inner.name, inner.age)
        IN  Complete(r, Request("update", id, user_json.name, user_json.age),
                     fault, <<Call("update", id, inner.name, inner.age)>>,
                     user.err,
                     respond(user, Json_object(user.users)),
                     user.store, user.nextId)

\* Mutant of delete: the result of the use-case is dropped and Ok returned.
delete_ignoring_error(r) ==
    /\ pc[r] = "delete"
    /\ \E id \in Ids, fault \in Faults :
        LET done == uc_delete(fault, store, nextId, id)
        IN  Complete(r, Request("delete", id, "", 0), fault,
                     <<Call("delete", id, "", 0)>>, done.err,
                     Response(Ok200, Empty),
                     done.store, done.nextId)

\* #[delete("/<id>")]
delete(r) ==
    /\ pc[r] = "delete"
    /\ \E id \in Ids, fault \in Faults :
        LET done == uc_delete(fault, store, nextId, id)
        IN  Complete(r, Request("delete", id, "", 0), fault,
                     <<Call("delete", id, "", 0)>>, done.err,
                     respond(done, Empty),
                     done.store, done.nextId)

Next ==
    \E r \in Requests :
        \/ Dispatch(r)
        \/ index(r)
        \/ add(r)
        \/ update(r)
        \/ delete(r)

Spec == Init /\ [][Next]_vars

\* ------------------------------------------------------------------ claims
\* `last` is the request that completed most recently.  Rows change only when
\* a request completes, so `store` is still what that request left behind.

Did(route) == last.request.route = route
Status == last.response.status
Users == last.response.body.users
\* The use-case call itself did not fail: no database failure, no domain
\* rule, no mocked error.  The repository's own not-found is not a fault.
NoFault == last.fault = None
TextBody(message) == Body("text", message, <<>>)

\* C1: a POST /add whose body has age > 32 is answered 400 with the body
\* "age must be less than 32", and makes no call on the use-case layer, so
\* the repository's create is not invoked and no id is assigned.
C1_AgeAboveLimitRejected ==
    (Did("add") /\ last.request.age > 32) =>
        /\ last.response = Response(400, TextBody("age must be less than 32"))
        /\ last.calls = <<>>
        /\ created = last.createdBefore
        /\ StoredIds(store) = last.beforeIds

C1_Witness ==
    /\ Did("add")
    /\ last.request.age = 33
    /\ Status = 400
    /\ last.calls = <<>>

\* C2: a POST /add with age <= 32 (32 included) calls create with the body's
\* name and age; when the create succeeds the returned User has the body's
\* name and age and an id no earlier create returned, whatever creates,
\* updates and deletes came before.
C2_CreateReturnsInputWithFreshId ==
    (Did("add") /\ last.request.age <= 32) =>
        /\ last.calls =
              <<Call("create", 0, last.request.name, last.request.age)>>
        /\ NoFault => Status = 200
        /\ Status = 200 =>
              /\ last.response.body.kind = "object"
              /\ Len(Users) = 1
              /\ Users[1].name = last.request.name
              /\ Users[1].age = last.request.age
              /\ Users[1].id \notin last.createdBefore
              /\ Users[1].id \notin last.beforeIds
              /\ Users[1] \in store

C2_Witness ==
    /\ Did("add")
    /\ last.request.age = 32
    /\ Status = 200
    /\ Users[1].age = 32
    /\ last.createdBefore # {}
    /\ deleted # {}

\* C3: unless the use-case call itself fails, a PUT /{id} on an id that is
\* not stored is answered 404, and a PUT /{id} on a stored id is answered
\* 200 with the User of that same id and the body's name and age, which is
\* then the stored row; no PUT on an absent id is ever answered 200.
C3_UpdateNotFoundOrUpdated ==
    Did("update") =>
        /\ (NoFault /\ last.request.id \notin last.beforeIds) => Status = 404
        /\ (NoFault /\ last.request.id \in last.beforeIds) => Status = 200
        /\ Status = 200 =>
              /\ last.request.id \in last.beforeIds
              /\ Users = <<User(last.request.id, last.request.name,
                                last.request.age)>>
              /\ Users[1] \in store
              /\ StoredIds(store) = last.beforeIds

C3_Witness ==
    /\ Did("update")
    /\ Status = 200
    /\ Users[1].id = last.request.id
    /\ Users[1].name = "x"
    /\ Cardinality(store) = 2

\* C4: unless the use-case call itself fails, a DELETE /{id} on an id that
\* is not stored is answered 404 (also when the id was deleted before), and
\* a DELETE /{id} on a stored id is answered 200 with an empty body and
\* removes the row; a removed id is never stored again and no later GET /
\* lists it.
C4_DeleteNotFoundOrRemoved ==
    /\ Did("delete") =>
        /\ (NoFault /\ last.request.id \notin last.beforeIds) =>
              /\ Status = 404
              /\ StoredIds(store) = last.beforeIds
        /\ (NoFault /\ last.request.id \in last.beforeIds) =>
              /\ last.response = Response(200, Empty)
              /\ StoredIds(store) = last.beforeIds \ {last.request.id}
              /\ last.request.id \in deleted
        /\ Status = 200 => last.request.id \in last.beforeIds
    /\ deleted \cap StoredIds(store) = {}
    /\ (Did("index") /\ Status = 200) =>
          \A i \in DOMAIN Users : Users[i].id \notin deleted

\* A second delete of an id already deleted fails not-found.
C4_Witness ==
    /\ Did("delete")
    /\ last.request.id \in deleted
    /\ last.request.id \notin last.beforeIds
    /\ Status = 404
    /\ store # {}

\* C5: a GET / whose find_all does not fail is answered 200, and the body of
\* a 200 is a JSON array holding every stored user once, with its current
\* name and age, and nothing else, in whatever order the storage gave.
C5_IndexReturnsStoredUsers ==
    Did("index") =>
        /\ NoFault => Status = 200
        /\ Status = 200 =>
              /\ last.response.body.kind = "array"
              /\ Range(Users) = store
              /\ Len(Users) = Cardinality(store)

C5_Witness ==
    /\ Did("index")
    /\ Status = 200
    /\ Len(Users) = 2
    /\ Users[1].id > Users[2].id
    /\ \E u \in store : u.age = 33

\* C6: in every handler, when the use-case call fails with (code, message)
\* the response has status code and body message, and the handler made that
\* one call and no other (no retry); a response that is not 200 is either
\* such an error or the handler's own 400.
C6_ErrorsPropagateUnchanged ==
    /\ last.err # None =>
          /\ last.response =
                Response(last.err[1].code, TextBody(last.err[1].message))
          /\ Len(last.calls) = 1
    /\ (last.err = None /\ ~Did("none")) =>
          \/ Status = 200
          \/ Did("add") /\ last.calls = <<>> /\ Status = 400

C6_Witness ==
    /\ Did("index")
    /\ last.err = Some(AppError_new(500, "error!"))
    /\ last.response = Response(500, TextBody("error!"))

\* C7 as stated: GET / is answered 500 whenever find_all returns an error,
\* whatever the error.
C7_IndexErrorIsAlways500 ==
    (Did("index") /\ last.err # None) => Status = 500

\* C7 as amended: GET / is answered with the status code the error of
\* find_all carries: 500 exactly when that code is 500.
C7_IndexErrorKeepsItsCode ==
    (Did("index") /\ last.err # None) =>
        /\ Status = last.err[1].code
        /\ Status = 500 <=> last.err[1].code = 500
        /\ Status # 200

C7_Witness ==
    /\ Did("index")
    /\ last.err # None
    /\ last.err[1].code = 404
    /\ Status = 404

\* C8: a PUT /{id} is passed to the use-case with the body's name and age
\* whatever they are, and on a stored id it succeeds (unless the call itself
\* fails) also with age > 32, so a stored user may have age > 32; a POST /add
\* with any age <= 32, negative ones included, and any name is passed on
\* likewise.
C8_OnlyCreateChecksAge ==
    /\ Did("update") =>
          /\ last.calls = <<Call("update", last.request.id,
                                 last.request.name, last.request.age)>>
          /\ (NoFault /\ last.request.id \in last.beforeIds) =>
                /\ Status = 200
                /\ User(last.request.id, last.request.name,
                        last.request.age) \in store
    /\ (Did("add") /\ last.request.age <= 32) =>
          /\ Len(last.calls) = 1
          /\ last.calls[1].name = last.request.name
          /\ last.calls[1].age = last.request.age
          /\ NoFault => \E u \in store :
                          /\ u.name = last.request.name
                          /\ u.age = last.request.age

C8_Witness ==
    /\ Did("update")
    /\ last.request.age = 33
    /\ Status = 200
    /\ \E u \in store : u.id = last.request.id /\ u.age > 32
    /\ \E u \in store : u.age < 0

InFlight == {r \in Requests : pc[r] # "idle"}

\* C9: every request in flight owns one connection of the pool, no two
\* requests in flight own the same one, a connection owned by a request is
\* not idle in the pool, and a request that has completed owns none (its
\* connection is back in the pool).
C9_ConnectionPerRequest ==
    /\ \A r \in InFlight : conn[r] \in Conns /\ conn[r] \notin pool
    /\ \A r1, r2 \in InFlight : r1 # r2 => conn[r1] # conn[r2]
    /\ \A r \in Requests \ InFlight : conn[r] = NoConn
    /\ pool \cup {conn[r] : r \in InFlight} = Conns

C9_Witness ==
    /\ InFlight = Requests
    /\ pool = {}
    /\ ~Did("none")
    /\ \A r1, r2 \in Requests : r1 # r2 => conn[r1] # conn[r2]

\* The request of slot r completes in this step.
Completes(r) == pc[r] # "idle" /\ pc'[r] = "idle"

\* C10: a request that ends in an error response (a create rejected with
\* 400, an update or a delete of an id that is not stored, a failed call)
\* leaves every stored user as it was, and so does every GET /.
C10_ErrorsAndIndexChangeNothing ==
    [][\A r \in Requests :
          (Completes(r) /\ (last'.response.status # 200 \/ pc[r] = "index"))
              => (store' = store /\ created' = created /\ deleted' = deleted)
      ]_vars

C10_Witness ==
    /\ Did("add")
    /\ Status = 400
    /\ store # {}
    /\ \A u \in store : u.age <= 32

====
